---- MODULE Spec2Model ----
(***************************************************************************)
(* The request/response pipeline of the MoySklad API client:               *)
(*   ApiClient._handle_response / _make_request  (moysklad_api/api_client) *)
(*   EntityRepository.find_all / fetch_all / find_by_id / update / delete  *)
(*   / update_bulk                               (repositories/base.py)    *)
(*   ListEntity.from_dict, MetaEntity.from_dict  (entities/base/entity.py) *)
(* One repository call is in progress at a time (the library is strictly   *)
(* layered and synchronous); the remote server and the network are the     *)
(* nondeterministic environment of every attempt of _make_request.         *)
(***************************************************************************)
EXTENDS Integers, Sequences, FiniteSets, TLC

(* ------------------------------ bounds --------------------------------- *)

\* config.retry_count ranges over 0..MaxRetryCount
MaxRetryCount == 4
\* config.retry_delay ranges over 1..MaxRetryDelay
MaxRetryDelay == 2
\* a 'rows' array of a list response holds at most MaxRows elements
MaxRows == 2
\* update_bulk is called with at most MaxBulk entities
MaxBulk == 2

(* --------------------------- Python values ----------------------------- *)

\* Python's None (entity ids and hrefs are strings, so None is a string no id equals)
None == "None"

\* Python truthiness of an Optional[str]
Truthy(v) == v /= None /\ v /= ""

\* the empty dict {}
EmptyDict == [k \in {} |-> None]

\* a value that is None, and a value that is a dict (a function from its keys):
\* tagged, so that "is None" and "not data" can be asked of either
NoneValue == [type |-> "NoneType"]
DictValue(d) == [type |-> "dict", items |-> d]

\* key in dict
HasKey(d, k) == k \in DOMAIN d

\* dict.get(k, default)
Get(d, k, default) == IF k \in DOMAIN d THEN d[k] ELSE default

\* not data, for a value that is None or a dict
Falsy(data) == data.type = "NoneType" \/ DOMAIN data.items = {}

\* 2 ** n
RECURSIVE Pow2(_)
Pow2(n) == IF n = 0 THEN 1 ELSE 2 * Pow2(n - 1)

(* ---------------------------- exceptions ------------------------------- *)

\* MoySkladException and its subclasses (exceptions.py)
MoySkladExceptionClasses ==
    { "MoySkladException", "RateLimitException", "AuthenticationException",
      "NotFoundException", "ValidationException" }

\* MoySkladException.__init__: the exception object; retry_after is set by
\* RateLimitException only (None elsewhere is modelled as -1)
Exception(type, status_code, retry_after) ==
    [type |-> type, status_code |-> status_code, retry_after |-> retry_after]

\* an exception of Python itself (ValueError, AttributeError, TypeError)
PyError(type) == Exception(type, -1, -1)

Return(value) == [value |-> value, kind |-> "return"]
Raise(exc)    == [kind |-> "raise", exc |-> exc]

(* --------------------------- configuration ----------------------------- *)

\* MoySkladConfig.__init__ stores its arguments unchecked; any int is accepted
MoySkladConfig(retry_count, retry_delay) ==
    [retry_count |-> retry_count, retry_delay |-> retry_delay]

Configs ==
    { MoySkladConfig(rc, rd) : rc \in 0..MaxRetryCount, rd \in 1..MaxRetryDelay }

(* ------------------------- server and network -------------------------- *)

\* HTTP status codes the server may answer with: both ends and the inside of
\* every range _handle_response tells apart, and the three codes it names
StatusCodes ==
    { 100, 199, 200, 299, 300, 399, 400, 401, 403, 404, 429, 499, 500, 599 }

\* the Retry-After header of a response: absent (<<>>) or delta-seconds
RetryAfterHeaders == { <<>>, <<0>>, <<1>> }

\* JSON objects of single entities, one with a field no entity class has
RowDicts ==
    { [id |-> "e1", name |-> "n1"], [id |-> "e2", futureField |-> "x"] }

RECURSIVE SeqsUpTo(_, _)
SeqsUpTo(S, n) ==
    IF n = 0 THEN { <<>> }
    ELSE LET shorter == SeqsUpTo(S, n - 1)
         IN  shorter \cup { Append(q, x) : q \in shorter, x \in S }

\* 'meta' members of a list response: href alone, or with the next page's href
MetaDicts == { [href |-> "page1"], [href |-> "page1", nextHref |-> "page2"] }

\* JSON bodies of list responses: 'rows' and 'meta' each present or not
ListBodies ==
    LET rowsOf == SeqsUpTo(RowDicts, MaxRows)
    IN  { [rows |-> r, meta |-> m] : r \in rowsOf, m \in MetaDicts }
        \cup { [rows |-> r] : r \in rowsOf }
        \cup { [meta |-> m] : m \in MetaDicts }
        \cup { [context |-> "ctx"] }

\* JSON bodies of single-entity responses
EntityBodies == RowDicts

\* JSON bodies of the responses to a bulk POST
BulkBodies == EntityBodies \cup { [rows |-> << r >>] : r \in RowDicts }

\* JSON body of an error response
ErrorBody == [errors |-> << [error |-> "msg"] >>]

\* a response: its status code, whether response.content is empty, the JSON the
\* content parses to, and its Retry-After header
Response(status_code, content, json, retry_after) ==
    [status_code |-> status_code, retry_after |-> retry_after,
     content |-> content, json |-> json]

NoResponse == Response(0, "none", EmptyDict, <<>>)

Is2xx(status_code) == 200 <= status_code /\ status_code < 300

\* the responses the server may give to a request of the repository call `op`
Responses(op) ==
    { Response(sc, "empty", EmptyDict, <<>>) : sc \in StatusCodes \ {429} }
    \cup { Response(sc, "json", b, <<>>) :
             sc \in { c \in StatusCodes : Is2xx(c) },
             b \in IF op \in {"find_all", "fetch_all"} THEN ListBodies
                   ELSE IF op = "update_bulk" THEN BulkBodies
                   ELSE EntityBodies }
    \cup { Response(429, "json", ErrorBody, ra) : ra \in RetryAfterHeaders }

\* requests.ConnectionError and requests.Timeout, raised by session.request
ConnectionFailures == { "ConnectionError", "Timeout" }

(* -------------------------------- state -------------------------------- *)

VARIABLES
    config,     \* ApiClient.config: retry_count and retry_delay
    pc,         \* "idle", "request" (inside the loop of _make_request), "done"
    call,       \* the repository call in progress: its name and its argument
    request,    \* the request _make_request was called with
    attempt,    \* the loop variable of _make_request
    sent,       \* the requests given to session.request during the call, in order
    events,     \* what each attempt met: a status code or a connection failure
    sleeps,     \* the arguments of the time.sleep calls of the call, in order
    response,   \* the response _handle_response saw last
    handled,    \* what _handle_response did with it: its return value or its raise
    result,     \* how _make_request ended
    outcome     \* how the repository call ended

httpVars == << config, pc, call, request, attempt, sent, events, sleeps, response,
               handled, result, outcome >>

VARIABLES
    qb,         \* a QueryBuilder: its Filter and OrderBy objects and its own fields
    qlog,       \* the calls made on the builder and its accumulators, in order
    params      \* what the last to_params() returned

queryVars == << qb, qlog, params >>

VARIABLES
    supplied,   \* the entity class and the payload given to from_dict / __init__
    built,      \* how the construction ended: the entity, None, or an exception
    dumped      \* what to_dict() returned for the entity

entityVars == << supplied, built, dumped >>

VARIABLES
    date,       \* a datetime
    date_str,   \* ms_datetime_to_string(date)
    date_back   \* ms_string_to_datetime(date_str)

dateVars == << date, date_str, date_back >>

VARIABLES
    owner,      \* an entity: its class's entity_name and its attributes collection
    last        \* the last attribute call: its arguments, the collection before it,
                \* its return value

attrVars == << owner, last >>

VARIABLES
    query_builder,  \* the QueryBuilder object the caller holds and passes to the calls
    conditions,     \* that builder as the caller built it, before any call
    gets            \* the api_client.get calls of the convenience calls, in order

repoVars == << query_builder, conditions, gets >>

vars == << httpVars, queryVars, entityVars, dateVars, attrVars, repoVars >>

\* a component nothing has been done with
Unused == [kind |-> "unused"]

Pending == [kind |-> "pending"]

NoCall == [op |-> "none", entities |-> <<>>]
NoRequest == [json |-> <<>>, method |-> "none", path |-> <<>>]

\* entity objects handed to update / update_bulk: without id, with an empty id,
\* with an id
EntityArgs ==
    { [type |-> "entity", id |-> i, name |-> "n1"] : i \in {None, "", "e1"} }

\* the collection endpoint of the repository (EntityRepository.entity_name)
entity_name == "entity/product"

(* --------------------------- _handle_response -------------------------- *)

\* int(response.headers.get("Retry-After", 60))
DefaultRetryAfter == 60
RetryAfter(resp) ==
    IF resp.retry_after = <<>> THEN DefaultRetryAfter ELSE resp.retry_after[1]

\* defect variant of _handle_response: the 4xx range closed at 500 (<= 500)
HandleResponse_Wide4xx(resp) ==
    IF 200 <= resp.status_code /\ resp.status_code < 300
    THEN IF resp.content = "empty"
         THEN Return(DictValue(EmptyDict))
         ELSE Return(DictValue(resp.json))
    ELSE IF resp.status_code = 401
    THEN Raise(Exception("AuthenticationException", resp.status_code, -1))
    ELSE IF resp.status_code = 404
    THEN Raise(Exception("NotFoundException", resp.status_code, -1))
    ELSE IF resp.status_code = 429
    THEN Raise(Exception("RateLimitException", resp.status_code, RetryAfter(resp)))
    ELSE IF 400 <= resp.status_code /\ resp.status_code <= 500
    THEN Raise(Exception("ValidationException", resp.status_code, -1))
    ELSE Raise(Exception("MoySkladException", resp.status_code, -1))

\* defect variant of _handle_response: the 2xx range ending below 299 (< 299)
HandleResponse_Narrow2xx(resp) ==
    IF 200 <= resp.status_code /\ resp.status_code < 299
    THEN IF resp.content = "empty"
         THEN Return(DictValue(EmptyDict))
         ELSE Return(DictValue(resp.json))
    ELSE IF resp.status_code = 401
    THEN Raise(Exception("AuthenticationException", resp.status_code, -1))
    ELSE IF resp.status_code = 404
    THEN Raise(Exception("NotFoundException", resp.status_code, -1))
    ELSE IF resp.status_code = 429
    THEN Raise(Exception("RateLimitException", resp.status_code, RetryAfter(resp)))
    ELSE IF 400 <= resp.status_code /\ resp.status_code < 500
    THEN Raise(Exception("ValidationException", resp.status_code, -1))
    ELSE Raise(Exception("MoySkladException", resp.status_code, -1))

\* ApiClient._handle_response: the parsed body of a 2xx response, an exception
\* chosen by the status code otherwise
HandleResponse(resp) ==
    IF 200 <= resp.status_code /\ resp.status_code < 300
    THEN IF resp.content = "empty"
         THEN Return(DictValue(EmptyDict))
         ELSE Return(DictValue(resp.json))
    ELSE IF resp.status_code = 401
    THEN Raise(Exception("AuthenticationException", resp.status_code, -1))
    ELSE IF resp.status_code = 404
    THEN Raise(Exception("NotFoundException", resp.status_code, -1))
    ELSE IF resp.status_code = 429
    THEN Raise(Exception("RateLimitException", resp.status_code, RetryAfter(resp)))
    ELSE IF 400 <= resp.status_code /\ resp.status_code < 500
    THEN Raise(Exception("ValidationException", resp.status_code, -1))
    ELSE Raise(Exception("MoySkladException", resp.status_code, -1))

(* ---------------------------- _make_request ---------------------------- *)

\* defect variant: "except MoySkladException", which catches every API error
CaughtRateLimit_AnyApiError(e) == e.type \in MoySkladExceptionClasses

\* except RateLimitException: the clause catches that class alone (it has no
\* subclass)
CaughtRateLimit(e) == e.type = "RateLimitException"

\* defect variant: the last-attempt test left out, every failure slept on
IsLastAttempt_Never(k) == FALSE

\* defect variant: the last attempt taken to be number retry_count
IsLastAttempt_OffByOne(k) == k = config.retry_count

\* attempt == self.config.retry_count - 1
IsLastAttempt(k) == k = config.retry_count - 1

\* e.retry_after or self.config.retry_delay
RateLimitWait(e) ==
    IF e.retry_after /= 0 THEN e.retry_after ELSE config.retry_delay

\* defect variant: linear backoff, retry_delay * (attempt + 1)
Backoff_Linear(k) == config.retry_delay * (k + 1)

\* self.config.retry_delay * (2 ** attempt)
Backoff(k) == config.retry_delay * Pow2(k)

\* defect variant: a bare "raise" of the requests exception
ConnectionException_Reraised == PyError("ConnectionError")

\* raise MoySkladException(0, str(e))
ConnectionException == Exception("MoySkladException", 0, -1)

(* ------------------------------ entities ------------------------------- *)

\* the dataclass fields of the entity class (of MetaEntity's seven, the two the
\* payloads above carry)
KnownFields == { "id", "name" }

\* MetaEntity.from_dict on a dict: None for an empty dict, else the entity built
\* from the known fields, the others left at their default None
EntityFromDict(row) ==
    IF DOMAIN row = {} THEN NoneValue
    ELSE LET filtered_data == [k \in DOMAIN row \cap KnownFields |-> row[k]]
         IN  [type |-> "entity",
              id   |-> Get(filtered_data, "id", None),
              name |-> Get(filtered_data, "name", None)]

\* MetaEntity.from_dict on what _make_request returned (a dict or None)
EntityFromValue(data) ==
    IF Falsy(data) THEN NoneValue ELSE EntityFromDict(data.items)

\* Meta(**kwargs): href is required, the other fields default to None
MetaInit(kwargs) ==
    IF ~HasKey(kwargs, "href") THEN Raise(PyError("TypeError"))
    ELSE Return([type |-> "Meta", href |-> kwargs.href,
                 nextHref |-> Get(kwargs, "nextHref", None)])

\* ListEntity.from_dict: None for a falsy payload; else the rows converted one by
\* one and the meta built from data.get("meta", {})
ListEntityFromDict(data) ==
    IF Falsy(data) THEN Return(NoneValue)
    ELSE LET raw  == Get(data.items, "rows", <<>>)
             rows == [i \in 1..Len(raw) |-> EntityFromDict(raw[i])]
             meta == MetaInit(Get(data.items, "meta", EmptyDict))
         IN  IF meta.kind = "raise" THEN meta
             ELSE Return([type |-> "ListEntity", rows |-> rows, meta |-> meta.value])

(* ----------------------------- repository ------------------------------ *)

\* ApiClient has the methods get, post, put and delete: the attribute lookup
\* self.api_client.get_via_url raises AttributeError
GetViaUrl == Raise(PyError("AttributeError"))

\* find_all, from the return of api_client.get on: (data.rows, data.meta)
FindAllResult(r) ==
    IF r.kind = "raise" THEN r
    ELSE LET data == ListEntityFromDict(r.value)
         IN  IF data.kind = "raise" THEN data
             ELSE IF data.value = NoneValue
             THEN Raise(PyError("AttributeError"))
             ELSE Return([type |-> "tuple", rows |-> data.value.rows,
                          meta |-> data.value.meta])

\* fetch_all, from the return of api_client.get on: the first page's rows, and the
\* loop over meta.nextHref, whose first step is the call of get_via_url
FetchAllResult(r) ==
    IF r.kind = "raise" THEN r
    ELSE LET data == ListEntityFromDict(r.value)
         IN  IF data.kind = "raise" THEN data
             ELSE IF data.value = NoneValue
             THEN Raise(PyError("AttributeError"))
             ELSE IF Truthy(data.value.meta.nextHref)
             THEN GetViaUrl
             ELSE Return([type |-> "list", items |-> data.value.rows])

\* find_by_id and update, from the return of the api_client call on
EntityResult(r) ==
    IF r.kind = "raise" THEN r ELSE Return(EntityFromValue(r.value))

\* delete, from the return of api_client.delete on: the response is dropped
DeleteResult(r) ==
    IF r.kind = "raise" THEN r ELSE Return(NoneValue)

\* update_bulk, from the return of api_client.post on
UpdateBulkResult(r) ==
    IF r.kind = "raise" THEN r
    ELSE IF r.value = NoneValue
    THEN Raise(PyError("TypeError"))
    ELSE IF HasKey(r.value.items, "rows")
    THEN LET raw == r.value.items.rows
         IN  Return([type |-> "list",
                     items |-> [i \in 1..Len(raw) |-> EntityFromDict(raw[i])]])
    ELSE Return([type |-> "list", items |-> << EntityFromValue(r.value) >>])

\* the repository method's code after its api_client call returned or raised
Continue(op, r) ==
    CASE op = "find_all"    -> FindAllResult(r)
      [] op = "fetch_all"   -> FetchAllResult(r)
      [] op = "find_by_id"  -> EntityResult(r)
      [] op = "update"      -> EntityResult(r)
      [] op = "delete"      -> DeleteResult(r)
      [] op = "update_bulk" -> UpdateBulkResult(r)

(* ------------------------------- actions ------------------------------- *)

Init ==
    /\ config \in Configs
    /\ pc = "idle"
    /\ call = NoCall
    /\ request = NoRequest
    /\ attempt = 0
    /\ sent = <<>>
    /\ events = <<>>
    /\ sleeps = <<>>
    /\ response = NoResponse
    /\ handled = Pending
    /\ result = Pending
    /\ outcome = Pending
    /\ qb = Unused /\ qlog = <<>> /\ params = Unused
    /\ supplied = Unused /\ built = Unused /\ dumped = Unused
    /\ date = Unused /\ date_str = Unused /\ date_back = Unused
    /\ owner = Unused /\ last = Unused
    /\ query_builder = Unused /\ conditions = Unused /\ gets = <<>>

\* the repository method reaches its api_client call: _make_request starts with
\* the loop variable at the first element of range(retry_count)
Start(op, entities, req) ==
    /\ pc = "idle"
    /\ call' = [op |-> op, entities |-> entities]
    /\ request' = req
    /\ pc' = "request"
    /\ attempt' = 0
    /\ sent' = <<>>
    /\ events' = <<>>
    /\ sleeps' = <<>>
    /\ response' = NoResponse
    /\ handled' = Pending
    /\ result' = Pending
    /\ outcome' = Pending
    /\ UNCHANGED config
    /\ UNCHANGED << queryVars, entityVars, dateVars, attrVars, repoVars >>

\* the repository method raises before any api_client call
Refuse(op, entities, exc) ==
    /\ pc = "idle"
    /\ call' = [op |-> op, entities |-> entities]
    /\ request' = NoRequest
    /\ pc' = "done"
    /\ attempt' = 0
    /\ sent' = <<>>
    /\ events' = <<>>
    /\ sleeps' = <<>>
    /\ response' = NoResponse
    /\ handled' = Pending
    /\ result' = Pending
    /\ outcome' = Raise(exc)
    /\ UNCHANGED config
    /\ UNCHANGED << queryVars, entityVars, dateVars, attrVars, repoVars >>

\* the request of each api_client method
Req(method, path, json) == [json |-> json, method |-> method, path |-> path]

\* EntityRepository.find_all, up to self.api_client.get(self.entity_name, ...)
FindAll == Start("find_all", <<>>, Req("GET", << entity_name >>, <<>>))

\* EntityRepository.fetch_all, up to its first self.api_client.get
FetchAll == Start("fetch_all", <<>>, Req("GET", << entity_name >>, <<>>))

\* EntityRepository.find_by_id, up to self.api_client.get
FindById ==
    \E entity_id \in {"e1"} :
        Start("find_by_id", <<>>, Req("GET", << entity_name, entity_id >>, <<>>))

\* EntityRepository.delete, up to self.api_client.delete
Delete ==
    \E entity_id \in {"e1"} :
        Start("delete", <<>>, Req("DELETE", << entity_name, entity_id >>, <<>>))

\* defect variant: only the first entity's id is looked at
MissingId_FirstOnly(entities) == entities /= <<>> /\ ~Truthy(entities[1].id)

\* some entity of the list fails "if not entity.id"
MissingId(entities) == \E i \in 1..Len(entities) : ~Truthy(entities[i].id)

\* EntityRepository.update: ValueError for an entity without id, else the PUT
Update ==
    \E entity \in EntityArgs :
        IF MissingId(<< entity >>)
        THEN Refuse("update", << entity >>, PyError("ValueError"))
        ELSE Start("update", << entity >>,
                   Req("PUT", << entity_name, entity.id >>, << entity >>))

\* EntityRepository.update_bulk: ValueError when some entity has no id, else one
\* POST of all of them
UpdateBulk ==
    \E entities \in SeqsUpTo(EntityArgs, MaxBulk) :
        IF MissingId(entities)
        THEN Refuse("update_bulk", entities, PyError("ValueError"))
        ELSE Start("update_bulk", entities,
                   Req("POST", << entity_name >>, entities))

\* _make_request ends (return or raise) and the repository method runs to its end
Finish(r) ==
    /\ result' = r
    /\ outcome' = Continue(call.op, r)
    /\ pc' = "done"

\* one iteration of the loop of _make_request in which session.request returns a
\* response: _handle_response returns, or raises; a RateLimitException is caught,
\* re-raised on the last attempt and slept on otherwise
AttemptResponse ==
    /\ pc = "request"
    /\ attempt < config.retry_count
    /\ \E resp \in Responses(call.op) :
        LET r == HandleResponse(resp) IN
        /\ sent' = Append(sent, request)
        /\ response' = resp
        /\ handled' = r
        /\ events' = Append(events, [status_code |-> resp.status_code,
                                     kind |-> "response"])
        /\ IF r.kind = "raise" /\ CaughtRateLimit(r.exc) /\ ~IsLastAttempt(attempt)
           THEN /\ sleeps' = Append(sleeps, RateLimitWait(r.exc))
                /\ attempt' = attempt + 1
                /\ UNCHANGED << pc, result, outcome >>
           ELSE /\ Finish(r)
                /\ UNCHANGED << sleeps, attempt >>
    /\ UNCHANGED << config, call, request >>
    /\ UNCHANGED << queryVars, entityVars, dateVars, attrVars, repoVars >>

\* one iteration in which session.request raises ConnectionError or Timeout:
\* MoySkladException(0) on the last attempt, else the backoff sleep
AttemptConnectionFailure ==
    /\ pc = "request"
    /\ attempt < config.retry_count
    /\ \E failure \in ConnectionFailures :
        /\ sent' = Append(sent, request)
        /\ events' = Append(events, [status_code |-> 0, kind |-> failure])
        /\ IF IsLastAttempt(attempt)
           THEN /\ Finish(Raise(ConnectionException))
                /\ UNCHANGED << sleeps, attempt >>
           ELSE /\ sleeps' = Append(sleeps, Backoff(attempt))
                /\ attempt' = attempt + 1
                /\ UNCHANGED << pc, result, outcome >>
    /\ UNCHANGED << config, call, request, response, handled >>
    /\ UNCHANGED << queryVars, entityVars, dateVars, attrVars, repoVars >>

\* range(retry_count) is exhausted: the function body ends, which returns None
LoopExhausted ==
    /\ pc = "request"
    /\ attempt >= config.retry_count
    /\ Finish(Return(NoneValue))
    /\ UNCHANGED << config, call, request, attempt, sent, events, sleeps, response,
                    handled >>
    /\ UNCHANGED << queryVars, entityVars, dateVars, attrVars, repoVars >>

\* the call has returned or raised into the caller's code, which goes on to its
\* next repository call
CallerContinues ==
    /\ pc = "done"
    /\ pc' = "idle"
    /\ call' = NoCall
    /\ request' = NoRequest
    /\ attempt' = 0
    /\ sent' = <<>>
    /\ events' = <<>>
    /\ sleeps' = <<>>
    /\ response' = NoResponse
    /\ handled' = Pending
    /\ result' = Pending
    /\ outcome' = Pending
    /\ UNCHANGED config
    /\ UNCHANGED << queryVars, entityVars, dateVars, attrVars, repoVars >>

Next ==
    \/ FindAll
    \/ FetchAll
    \/ FindById
    \/ Delete
    \/ Update
    \/ UpdateBulk
    \/ AttemptResponse
    \/ AttemptConnectionFailure
    \/ LoopExhausted
    \/ CallerContinues

Spec == Init /\ [][Next]_vars

(* ------------------------------ properties ----------------------------- *)

IsResponse(ev)          == ev.kind = "response"
IsConnectionFailure(ev) == ev.kind \in ConnectionFailures
IsRateLimited(ev)       == IsResponse(ev) /\ ev.status_code = 429

\* C1: _handle_response maps every status code to exactly one outcome: 200-299
\* returns the parsed JSON body ({} for an empty body), 401 raises
\* AuthenticationException, 404 NotFoundException, 429 RateLimitException, any
\* other 400-499 ValidationException, every remaining code (1xx, 3xx, 5xx) the
\* base MoySkladException; the exception's status_code is the response's.
C1_StatusCodeMapping ==
    response /= NoResponse =>
        LET sc == response.status_code
            raises(type) == /\ handled.kind = "raise"
                            /\ handled.exc.type = type
                            /\ handled.exc.status_code = sc
        IN  /\ handled /= Pending
            /\ (sc >= 200 /\ sc <= 299) =>
                   /\ handled.kind = "return"
                   /\ handled.value =
                        DictValue(IF response.content = "empty" THEN EmptyDict
                                  ELSE response.json)
            /\ sc = 401 => raises("AuthenticationException")
            /\ sc = 404 => raises("NotFoundException")
            /\ sc = 429 => raises("RateLimitException")
            /\ (sc >= 400 /\ sc <= 499 /\ sc \notin {401, 404, 429}) =>
                   raises("ValidationException")
            /\ (sc < 200 \/ (sc >= 300 /\ sc <= 399) \/ sc >= 500) =>
                   raises("MoySkladException")

\* a 500 was handled: the base exception, carrying the 500
C1_Witness ==
    /\ response.status_code = 500
    /\ handled = Raise(Exception("MoySkladException", 500, -1))

\* C2: a 429 on an attempt that is not the last of the retry_count attempts is
\* followed by a sleep and by a further attempt that sends the same request; a 429
\* on the last attempt ends the call with RateLimitException raised to the caller.
C2_RetryOnRateLimit ==
    \A i \in 1..Len(events) :
        IsRateLimited(events[i]) =>
            IF i /= config.retry_count
            THEN /\ Len(sleeps) >= i
                 /\ i = Len(events) =>
                        /\ pc = "request"
                        /\ attempt < config.retry_count
                        /\ request = sent[i]
                        /\ result = Pending
                 /\ i < Len(events) => sent[i + 1] = sent[i]
            ELSE /\ i = Len(events)
                 /\ Len(sleeps) = i - 1
                 /\ pc = "done"
                 /\ result.kind = "raise"
                 /\ result.exc.type = "RateLimitException"
                 /\ result.exc.status_code = 429
                 /\ outcome = result

\* a 429 on the first attempt was slept on and the request sent again, and the
\* 429 of the last attempt was raised
C2_Witness ==
    /\ config.retry_count = 2
    /\ Len(events) = 2
    /\ IsRateLimited(events[1])
    /\ IsRateLimited(events[2])
    /\ Len(sleeps) = 1
    /\ sent[2] = sent[1]
    /\ outcome.kind = "raise"

\* C3: a connection error or timeout on attempt k (from 0) with
\* k < retry_count - 1 is followed by a sleep of exactly retry_delay * 2^k.
C3_ExponentialBackoff ==
    \A i \in 1..Len(events) :
        (IsConnectionFailure(events[i]) /\ i - 1 < config.retry_count - 1) =>
            /\ Len(sleeps) >= i
            /\ sleeps[i] = config.retry_delay * (2 ^ (i - 1))

\* three connection failures in a row were slept on: d, 2d, 4d
C3_Witness ==
    /\ Len(sleeps) = 3
    /\ \A i \in 1..3 : IsConnectionFailure(events[i])
    /\ sleeps = << config.retry_delay, 2 * config.retry_delay,
                   4 * config.retry_delay >>

\* C4: a call all of whose attempts fail with a connection error or timeout sends
\* exactly retry_count requests and raises MoySkladException with status_code 0,
\* not the requests exception.
C4_ConnectionFailureExhausted ==
    ( /\ pc = "done"
      /\ events /= <<>>
      /\ \A i \in 1..Len(events) : IsConnectionFailure(events[i]) ) =>
        /\ Len(sent) = config.retry_count
        /\ result.kind = "raise"
        /\ result.exc.type = "MoySkladException"
        /\ result.exc.status_code = 0
        /\ outcome = result

C4_Witness ==
    /\ pc = "done"
    /\ config.retry_count = 3
    /\ Len(events) = 3
    /\ \A i \in 1..3 : IsConnectionFailure(events[i])
    /\ result.kind = "raise"

\* the parsed body of the response seen last
ParsedBody ==
    DictValue(IF response.content = "empty" THEN EmptyDict ELSE response.json)

\* C5: every _make_request call, for every configuration (retry_count = 0
\* included), ends either with the parsed JSON of a 2xx response returned or with
\* MoySkladException (or a subclass) raised; it never returns None.
C5_ReturnsBodyOrRaises ==
    (pc = "done" /\ result /= Pending) =>
        \/ /\ result.kind = "return"
           /\ Is2xx(response.status_code)
           /\ result.value = ParsedBody
        \/ /\ result.kind = "raise"
           /\ result.exc.type \in MoySkladExceptionClasses

\* C6: when every attempt fails with a retryable error (429, connection error,
\* timeout), the request is re-sent retry_count times after the initial attempt
\* before the error is raised.
C6_RetryCountResends ==
    ( /\ pc = "done"
      /\ result.kind = "raise"
      /\ events /= <<>>
      /\ \A i \in 1..Len(events) :
            IsRateLimited(events[i]) \/ IsConnectionFailure(events[i]) ) =>
        Len(sent) = 1 + config.retry_count

\* the exception class _handle_response gives a status code that is neither 2xx
\* nor 429
ErrorClass(sc) ==
    IF sc = 401 THEN "AuthenticationException"
    ELSE IF sc = 404 THEN "NotFoundException"
    ELSE IF sc >= 400 /\ sc <= 499 THEN "ValidationException"
    ELSE "MoySkladException"

\* C7: a response whose status is neither 2xx nor 429 is never retried: its
\* exception (NotFoundException for 404, ...) is raised to the caller of the
\* repository method on its first occurrence, whatever retry_count is; when it
\* answers the first attempt, exactly one HTTP request was sent.
C7_ErrorsNotRetried ==
    \A i \in 1..Len(events) :
        ( /\ IsResponse(events[i])
          /\ ~Is2xx(events[i].status_code)
          /\ events[i].status_code /= 429 ) =>
            /\ i = Len(events)
            /\ Len(sent) = i
            /\ Len(sleeps) = i - 1
            /\ pc = "done"
            /\ result = Raise(Exception(ErrorClass(events[i].status_code),
                                        events[i].status_code, -1))
            /\ outcome = result

\* find_by_id got a 404 on its first attempt with retries left
C7_Witness ==
    /\ call.op = "find_by_id"
    /\ config.retry_count = MaxRetryCount
    /\ Len(events) = 1
    /\ events[1].status_code = 404
    /\ Len(sent) = 1
    /\ outcome.kind = "raise"
    /\ outcome.exc.type = "NotFoundException"

\* C8: fetch_all returns the flat list of the entities of every page, the first
\* response's rows followed by those of each page reached through meta.nextHref,
\* one request per page, stopping at the first page without nextHref. (Stated of
\* a first page that has its 'rows' and 'meta'.)
C8_FetchAllAllPages ==
    ( /\ pc = "done"
      /\ call.op = "fetch_all"
      /\ result.kind = "return"
      /\ Is2xx(response.status_code)
      /\ response.content = "json"
      /\ HasKey(response.json, "rows")
      /\ HasKey(response.json, "meta") ) =>
        /\ outcome.kind = "return"
        /\ outcome.value.type = "list"
        /\ ~Truthy(Get(response.json.meta, "nextHref", None))
        /\ outcome.value.items =
             [i \in 1..Len(response.json.rows) |->
                 EntityFromDict(response.json.rows[i])]

\* C9: for every 2xx response to the list request (an empty body, or one without
\* 'rows' or 'meta', included) find_all returns (rows, meta), rows holding one
\* entity per element of the response's 'rows' in order; it never fails.
C9_FindAllNeverFails ==
    ( /\ pc = "done"
      /\ call.op = "find_all"
      /\ result.kind = "return"
      /\ Is2xx(response.status_code) ) =>
        LET raw == Get(ParsedBody.items, "rows", <<>>)
        IN  /\ outcome.kind = "return"
            /\ outcome.value.type = "tuple"
            /\ Len(outcome.value.rows) = Len(raw)
            /\ \A i \in 1..Len(raw) :
                  outcome.value.rows[i] = EntityFromDict(raw[i])

\* C10: update with an entity without id, and update_bulk with a list one of
\* whose entities has no id, raise ValueError and send no HTTP request.
C10_NoIdNoRequest ==
    ( /\ call.op \in {"update", "update_bulk"}
      /\ \E i \in 1..Len(call.entities) :
            call.entities[i].id \in {None, ""} ) =>
        /\ pc = "done"
        /\ outcome = Raise(PyError("ValueError"))
        /\ sent = <<>>
        /\ result = Pending

\* update_bulk was called with an entity with id followed by one without
C10_Witness ==
    /\ call.op = "update_bulk"
    /\ Len(call.entities) = 2
    /\ call.entities[1].id = "e1"
    /\ call.entities[2].id = None
    /\ outcome = Raise(PyError("ValueError"))
    /\ sent = <<>>

C19_FirstSuccessEndsCall ==
    \A i \in 1..Len(events) :
        (IsResponse(events[i]) /\ events[i].status_code >= 200
                               /\ events[i].status_code <= 299) =>
            /\ i = Len(events)
            /\ pc = "done"
            /\ response.status_code = events[i].status_code
            /\ result = Return(ParsedBody)
            /\ Len(sent) = i
            /\ Len(sleeps) = i - 1

\* a 299 with a JSON body on the third attempt, after a 429 and a timeout
C19_Witness ==
    /\ Len(events) = 3
    /\ IsRateLimited(events[1])
    /\ events[2].kind = "Timeout"
    /\ events[3].status_code = 299
    /\ response.content = "json"
    /\ result = Return(DictValue(response.json))
    /\ Len(sleeps) = 2

(* ======================================================================= *)
(*  The parts of the library that work without the HTTP client.  Each has  *)
(*  its own specification; the client is left as constructed with the      *)
(*  default configuration.                                                 *)
(* ======================================================================= *)

\* MoySkladConfig() with its default arguments, and a client nothing was
\* asked of
ClientUnused ==
    /\ config = MoySkladConfig(3, 1)
    /\ pc = "idle"
    /\ call = NoCall
    /\ request = NoRequest
    /\ attempt = 0
    /\ sent = <<>>
    /\ events = <<>>
    /\ sleeps = <<>>
    /\ response = NoResponse
    /\ handled = Pending
    /\ result = Pending
    /\ outcome = Pending

(* ---------------------------- Python values ---------------------------- *)

\* A str is the sequence of its pieces (<<>> is ""); values of different
\* types are records of different shape.
StrV(s)  == [str |-> s]
IntV(n)  == [int |-> n]
BoolV(b) == [bool |-> b]
ListV(l) == [list |-> l]

\* type(v).__name__; the objects of dataclasses are "object"
TypeOf(v) ==
    IF "str" \in DOMAIN v THEN "str"
    ELSE IF "int" \in DOMAIN v THEN "int"
    ELSE IF "bool" \in DOMAIN v THEN "bool"
    ELSE IF "list" \in DOMAIN v THEN "list"
    ELSE IF "cls" \in DOMAIN v THEN "object"
    ELSE IF "attributes" \in DOMAIN v THEN "AttributeCollection"
    ELSE IF "hour" \in DOMAIN v THEN "datetime"
    ELSE IF "type" \in DOMAIN v THEN v.type
    ELSE "absent"


Digit == << "0", "1", "2", "3", "4", "5", "6", "7", "8", "9" >>

\* str(n) of a non-negative int
RECURSIVE IntStr(_)
IntStr(n) ==
    IF n < 10 THEN << Digit[n + 1] >>
    ELSE IntStr(n \div 10) \o << Digit[(n % 10) + 1] >>

\* str(value) of a str, an int or a bool
PyStr(value) ==
    IF TypeOf(value) = "str" THEN value.str
    ELSE IF TypeOf(value) = "bool" THEN (IF value.bool THEN << "True" >> ELSE << "False" >>)
    ELSE IntStr(value.int)

\* str.lower()
Lower(s) ==
    [ i \in 1..Len(s) |->
        IF s[i] = "True" THEN "true" ELSE IF s[i] = "False" THEN "false" ELSE s[i] ]

\* sep.join(strs)
RECURSIVE Join(_, _)
Join(strs, sep) ==
    IF Len(strs) = 0 THEN <<>>
    ELSE IF Len(strs) = 1 THEN strs[1]
    ELSE strs[1] \o << sep >> \o Join(Tail(strs), sep)

\* d.update(e); d[k] = v is d.update({k: v})
DictUpdate(d, e) ==
    [ k \in DOMAIN d \cup DOMAIN e |-> IF k \in DOMAIN e THEN e[k] ELSE d[k] ]

(* ------------------------------ query.py ------------------------------- *)

\* the builder calls one query is made of
MaxCalls == 3

\* Filter.add, with a variant that skips a condition it already holds
Filter_add_Dedup(_filters, field, operator, value) ==
    IF \E i \in 1..Len(_filters) :
          _filters[i] = [value |-> value, field |-> field, operator |-> operator]
    THEN _filters
    ELSE Append(_filters, [value |-> value, field |-> field, operator |-> operator])

Filter_add(_filters, field, operator, value) ==
    Append(_filters, [value |-> value, field |-> field, operator |-> operator])

\* Filter.eq, neq, gt, lt, gte, lte, like, starts_with: each is add with its
\* operator
FilterMethod(method, _filters, field, value) ==
    CASE method = "eq"          -> Filter_add(_filters, field, "=", value)
      [] method = "neq"         -> Filter_add(_filters, field, "!=", value)
      [] method = "gt"          -> Filter_add(_filters, field, ">", value)
      [] method = "lt"          -> Filter_add(_filters, field, "<", value)
      [] method = "gte"         -> Filter_add(_filters, field, ">=", value)
      [] method = "lte"         -> Filter_add(_filters, field, "<=", value)
      [] method = "like"        -> Filter_add(_filters, field, "~", value)
      [] method = "starts_with" -> Filter_add(_filters, field, "~=", value)

\* the value formatting of Filter.to_params (the values here are no datetimes)
FormatValue(value) ==
    IF TypeOf(value) = "bool" THEN Lower(PyStr(value))
    ELSE IF TypeOf(value) = "list"
         THEN Join([ i \in 1..Len(value.list) |-> PyStr(value.list[i]) ], ",")
    ELSE PyStr(value)

\* each condition is f"{field}{operator}{formatted_value}"
Filter_to_params(_filters) ==
    [ filter |-> Join([ i \in 1..Len(_filters) |->
                          << _filters[i].field, _filters[i].operator >>
                              \o FormatValue(_filters[i].value) ], ";") ]

OrderBy_add(_order_by, field, direction) ==
    Append(_order_by, [field |-> field, direction |-> direction])

OrderBy_to_params(_order_by) ==
    LET value == Join([ i \in 1..Len(_order_by) |->
                          << _order_by[i].field, ",", _order_by[i].direction >> ], ";")
    IN  IF value /= <<>> THEN DictUpdate(EmptyDict, "order" :> value) ELSE EmptyDict

\* QueryBuilder(): the builder holds references to one Filter and one OrderBy
NewQueryBuilder ==
    [ _order_by |-> "OrderBy1",
      objects   |-> [ Filter1 |-> <<>>, OrderBy1 |-> <<>> ],
      _filter   |-> "Filter1",
      _expand   |-> <<>>,
      _limit    |-> NoneValue,
      _offset   |-> NoneValue,
      _search   |-> NoneValue ]

QueryBuilder_filter(q)   == q._filter
QueryBuilder_order_by(q) == q._order_by

QueryBuilder_to_params(q) ==
    LET p1 == DictUpdate(EmptyDict, Filter_to_params(q.objects[q._filter]))
        p2 == DictUpdate(p1, OrderBy_to_params(q.objects[q._order_by]))
        p3 == IF q._expand /= <<>>
              THEN DictUpdate(p2, "expand" :> Join(q._expand, ",")) ELSE p2
        p4 == IF TypeOf(q._limit) /= "NoneType"
              THEN DictUpdate(p3, "limit" :> PyStr(q._limit)) ELSE p3
        p5 == IF TypeOf(q._offset) /= "NoneType"
              THEN DictUpdate(p4, "offset" :> PyStr(q._offset)) ELSE p4
        p6 == IF TypeOf(q._search) /= "NoneType"
              THEN DictUpdate(p5, "search" :> q._search.str) ELSE p5
    IN  p6

\* the values the callers filter by
FilterValues == { StrV(<< "x" >>), IntV(10), BoolV(TRUE),
                  ListV(<< IntV(1), BoolV(TRUE) >>) }
\* every filter method with a str, and eq with every kind of value
FilterArgs ==
    { << m, StrV(<< "x" >>) >> :
        m \in { "eq", "neq", "gt", "lt", "gte", "lte", "like", "starts_with" } }
      \cup { << "eq", v >> : v \in FilterValues }

InitQuery ==
    /\ ClientUnused
    /\ qb = NewQueryBuilder
    /\ qlog = <<>>
    /\ params = Unused
    /\ supplied = Unused /\ built = Unused /\ dumped = Unused
    /\ date = Unused /\ date_str = Unused /\ date_back = Unused
    /\ owner = Unused /\ last = Unused
    /\ query_builder = Unused /\ conditions = Unused /\ gets = <<>>

\* q.filter().<method>(field, value)
FilterCall(method, field, value) ==
    /\ Len(qlog) < MaxCalls
    /\ LET ref == QueryBuilder_filter(qb)
       IN  qb' = [qb EXCEPT !.objects[ref] = FilterMethod(method, @, field, value)]
    /\ qlog' = Append(qlog, [method |-> method, obj |-> "filter",
                           args |-> << StrV(<< field >>), value >>])
    /\ params' = Unused
    /\ UNCHANGED << httpVars, entityVars, dateVars, attrVars, repoVars >>

\* q.filter().add(field, operator, value)
FilterAddCall(field, operator, value) ==
    /\ Len(qlog) < MaxCalls
    /\ LET ref == QueryBuilder_filter(qb)
       IN  qb' = [qb EXCEPT !.objects[ref] = Filter_add(@, field, operator, value)]
    /\ qlog' = Append(qlog, [method |-> "add", obj |-> "filter",
                           args |-> << StrV(<< field >>), StrV(<< operator >>), value >>])
    /\ params' = Unused
    /\ UNCHANGED << httpVars, entityVars, dateVars, attrVars, repoVars >>

\* q.order_by().add(field, direction)
OrderByCall(field, direction) ==
    /\ Len(qlog) < MaxCalls
    /\ LET ref == QueryBuilder_order_by(qb)
       IN  qb' = [qb EXCEPT !.objects[ref] = OrderBy_add(@, field, direction)]
    /\ qlog' = Append(qlog, [method |-> "add", obj |-> "order_by",
                           args |-> << StrV(<< field >>), StrV(<< direction >>) >>])
    /\ params' = Unused
    /\ UNCHANGED << httpVars, entityVars, dateVars, attrVars, repoVars >>

\* q.limit(limit)
Limit(limit) ==
    /\ Len(qlog) < MaxCalls
    /\ qb' = [qb EXCEPT !._limit = limit]
    /\ qlog' = Append(qlog, [method |-> "limit", obj |-> "builder", args |-> << limit >>])
    /\ params' = Unused
    /\ UNCHANGED << httpVars, entityVars, dateVars, attrVars, repoVars >>

\* q.offset(offset)
Offset(offset) ==
    /\ Len(qlog) < MaxCalls
    /\ qb' = [qb EXCEPT !._offset = offset]
    /\ qlog' = Append(qlog, [method |-> "offset", obj |-> "builder", args |-> << offset >>])
    /\ params' = Unused
    /\ UNCHANGED << httpVars, entityVars, dateVars, attrVars, repoVars >>

\* q.expand(*fields)
Expand(fields) ==
    /\ Len(qlog) < MaxCalls
    /\ qb' = [qb EXCEPT !._expand = @ \o fields]
    /\ qlog' = Append(qlog, [method |-> "expand", obj |-> "builder",
                           args |-> [ i \in 1..Len(fields) |-> StrV(fields[i]) ]])
    /\ params' = Unused
    /\ UNCHANGED << httpVars, entityVars, dateVars, attrVars, repoVars >>

\* q.search(query)
Search(query) ==
    /\ Len(qlog) < MaxCalls
    /\ qb' = [qb EXCEPT !._search = query]
    /\ qlog' = Append(qlog, [method |-> "search", obj |-> "builder", args |-> << query >>])
    /\ params' = Unused
    /\ UNCHANGED << httpVars, entityVars, dateVars, attrVars, repoVars >>

\* q.to_params(); the result stands until the builder is changed again
ToParams ==
    /\ params = Unused
    /\ params' = [kind |-> "params", dict |-> QueryBuilder_to_params(qb)]
    /\ UNCHANGED << qb, qlog >>
    /\ UNCHANGED << httpVars, entityVars, dateVars, attrVars, repoVars >>

NextQuery ==
    \/ \E a \in FilterArgs : FilterCall(a[1], "name", a[2])
    \/ \E value \in FilterValues : FilterAddCall("name", "=~", value)
    \/ \E direction \in { "asc", "desc" } : OrderByCall("name", direction)
    \/ \E limit \in { IntV(0), IntV(10) } : Limit(limit)
    \/ Offset(IntV(0))
    \/ \E fields \in { <<>>, << << "a" >>, << "b" >> >> } : Expand(fields)
    \/ \E query \in { StrV(<<>>), StrV(<< "q" >>) } : Search(query)
    \/ ToParams

SpecQuery == InitQuery /\ [][NextQuery]_vars

\* the calls of the log made on one object, in order
CallsOn(obj) == SelectSeq(qlog, LAMBDA c : c.obj = obj)
\* the calls of one builder method
BuilderCalls(method) == SelectSeq(qlog, LAMBDA c : c.obj = "builder" /\ c.method = method)

\* the pieces of s between the separators
RECURSIVE SplitOn(_, _)
SplitOn(s, sep) ==
    IF \A i \in 1..Len(s) : s[i] /= sep THEN << s >>
    ELSE LET i == CHOOSE i \in 1..Len(s) : s[i] = sep /\ \A j \in 1..(i - 1) : s[j] /= sep
         IN  << SubSeq(s, 1, i - 1) >> \o SplitOn(SubSeq(s, i + 1, Len(s)), sep)

\* the operator a logged filter call asks for
OperatorOf(c) ==
    IF c.method = "add" THEN c.args[2].str[1]
    ELSE CASE c.method = "eq"          -> "="
           [] c.method = "neq"         -> "!="
           [] c.method = "gt"          -> ">"
           [] c.method = "lt"          -> "<"
           [] c.method = "gte"         -> ">="
           [] c.method = "lte"         -> "<="
           [] c.method = "like"        -> "~"
           [] c.method = "starts_with" -> "~="

\* C11: to_params renders exactly one predicate per filter call and one clause
\* per order call, in call order, separated by ';', none dropped, merged or
\* deduplicated; filter() and order_by() give the accumulator the builder was
\* constructed with on every call.
C11_OnePredicatePerCall ==
    /\ qb /= Unused =>
          /\ QueryBuilder_filter(qb) = NewQueryBuilder._filter
          /\ QueryBuilder_order_by(qb) = NewQueryBuilder._order_by
    /\ params /= Unused =>
          LET f == CallsOn("filter")
              o == CallsOn("order_by")
              d == params.dict
          IN  /\ f /= <<>> =>
                    /\ "filter" \in DOMAIN d
                    /\ LET p == SplitOn(d["filter"], ";")
                       IN  /\ Len(p) = Len(f)
                           /\ \A i \in 1..Len(f) :
                                 p[i] = f[i].args[1].str \o << OperatorOf(f[i]) >>
                                          \o FormatValue(f[i].args[Len(f[i].args)])
              /\ o /= <<>> =>
                    /\ "order" \in DOMAIN d
                    /\ LET p == SplitOn(d["order"], ";")
                       IN  /\ Len(p) = Len(o)
                           /\ \A i \in 1..Len(o) :
                                 p[i] = o[i].args[1].str \o << "," >> \o o[i].args[2].str

\* the same filter condition asked for twice through two filter() calls, and
\* an order clause
C11_Witness ==
    /\ params /= Unused
    /\ Len(qlog) = 3
    /\ qlog[1].obj = "filter" /\ qlog[1].method = "like"
    /\ qlog[2].obj = "order_by"
    /\ qlog[3] = qlog[1]
    /\ params.dict["filter"] = << "name", "~", "x", ";", "name", "~", "x" >>

\* C20: to_params of a builder nothing was called on is the empty dict, and
\* each of the keys filter, order, expand, limit, offset, search is present
\* exactly when a filter predicate, order clause, expand field, limit, offset or
\* search term was supplied.
C20_OnlySetComponents ==
    params /= Unused =>
        LET d == params.dict
        IN  /\ qlog = <<>> => d = EmptyDict
            /\ "filter" \in DOMAIN d <=> CallsOn("filter") /= <<>>
            /\ "order" \in DOMAIN d <=> CallsOn("order_by") /= <<>>
            /\ "expand" \in DOMAIN d <=>
                  \E i \in 1..Len(qlog) :
                      qlog[i].method = "expand" /\ qlog[i].args /= <<>>
            /\ "limit" \in DOMAIN d <=> BuilderCalls("limit") /= <<>>
            /\ "offset" \in DOMAIN d <=> BuilderCalls("offset") /= <<>>
            /\ "search" \in DOMAIN d <=> BuilderCalls("search") /= <<>>

(* --------------------- entities: construction, to_dict ----------------- *)

\* An object of a dataclass: its class, its identity and its fields.  Every
\* object a construction creates is "new"; the objects a caller passes in
\* have identities of their own.
Instance(cls, oid, flds) == [fields |-> flds, cls |-> cls, oid |-> oid]
\* an AttributeCollection (a list subclass) with its items
AttrColl(items) == [attributes |-> items]


MetaEntitySubclasses == { "Organization", "Supply", "Webhook", "WebhookStock" }
Dataclasses          == MetaEntitySubclasses \cup { "Meta", "Attribute" }

\* dataclasses.fields(cls), in order.  Of the fields of the same kind one is
\* kept: Organization, Supply, Webhook, WebhookStock inherit meta and id from
\* MetaEntity, Supply also attributes.
Fields(cls) ==
    CASE cls = "Meta"         -> << "href", "type" >>
      [] cls = "Attribute"    -> << "meta", "id", "value" >>
      [] cls = "Organization" -> << "meta", "id" >>
      [] cls = "Supply"       -> << "meta", "id", "attributes", "organization",
                                    "store", "payments" >>
      [] cls = "Webhook"      -> << "meta", "id", "authorApplication" >>
      [] cls = "WebhookStock" -> << "meta", "id", "url" >>

FieldNames(cls) == { Fields(cls)[i] : i \in 1..Len(Fields(cls)) }

\* the fields without a default value
Required(cls) == IF cls = "Meta" THEN { "href" } ELSE {}

\* the type annotations, as get_type_hints resolves them: a class, or an
\* origin (Union for Optional[...], list, dict) with its argument
TypeHint(cls, field) ==
    LET Optional(h) == [origin |-> "Union", arg |-> h]
        List(h)     == [origin |-> "list", arg |-> h]
        Dict        == [origin |-> "dict"]
        Class(c)    == [class |-> c]
    IN  CASE field = "meta"              -> Optional(Class("Meta"))
          [] field = "authorApplication" -> Optional(Class("Meta"))
          [] field = "organization"      -> Optional(Class("Organization"))
          [] field = "payments"          -> Optional(List(Class("Meta")))
          [] field = "store"             -> Optional(Dict)
          [] field = "attributes"        -> Optional(Class("AttributeCollection"))
          [] field = "value"             -> Optional(Class("object"))
          [] field = "href"              -> Class("str")
          [] OTHER                       -> Optional(Class("str"))

\* {k: v for k, v in d.items() if k in keys}
Restrict(d, keys) == [ k \in DOMAIN d \cap keys |-> d[k] ]

\* the first exception of a sequence of outcomes, or none
FirstRaise(outcomes) ==
    LET failed == { i \in 1..Len(outcomes) : outcomes[i].kind = "raise" }
    IN  IF failed = {} THEN Pending
        ELSE outcomes[CHOOSE i \in failed : \A j \in failed : i <= j]

RECURSIVE Dataclass_init(_, _)
RECURSIVE MetaEntity_post_init(_, _)
RECURSIVE MetaEntity_convert_field_value(_, _)
RECURSIVE MetaEntity_from_dict(_, _)
RECURSIVE from_dict(_, _)

\* Attribute.__post_init__: a dict meta becomes Meta(**meta)
Attribute_post_init(flds) ==
    IF TypeOf(flds.meta) = "dict"
    THEN LET m == Dataclass_init("Meta", flds.meta.items)
         IN  IF m.kind = "raise" THEN m
             ELSE Return(Instance("Attribute", "new", [flds EXCEPT !.meta = m.value]))
    ELSE Return(Instance("Attribute", "new", flds))

\* Attribute.from_dict: cls(**data), every key passed on
Attribute_from_dict(data) ==
    IF Falsy(data) THEN Return(NoneValue)
    ELSE Dataclass_init("Attribute", data.items)

AttributeCollection_ensure_attribute(item) ==
    IF TypeOf(item) = "object" /\ item.cls = "Attribute" THEN Return(item)
    ELSE IF TypeOf(item) = "dict"
         THEN LET attribute == Attribute_from_dict(item)
              IN  IF attribute.kind = "return" /\ TypeOf(attribute.value) = "NoneType"
                  THEN Raise(PyError("ValueError"))
                  ELSE attribute
    ELSE Raise(PyError("TypeError"))

\* AttributeCollection(iterable, owner=self)
AttributeCollection_init(iterable) ==
    LET items == [ i \in 1..Len(iterable) |->
                     AttributeCollection_ensure_attribute(iterable[i]) ]
    IN  IF FirstRaise(items) /= Pending THEN FirstRaise(items)
        ELSE Return(AttrColl([ i \in 1..Len(items) |-> items[i].value ]))

\* MetaEntity._bind_attribute_collection, then the entity is there
MetaEntity_bind_attribute_collection(cls, flds) ==
    IF "attributes" \notin DOMAIN flds \/ TypeOf(flds.attributes) = "NoneType"
       \/ TypeOf(flds.attributes) = "AttributeCollection"
    THEN Return(Instance(cls, "new", flds))
    ELSE LET c == AttributeCollection_init(flds.attributes.list)
         IN  IF c.kind = "raise" THEN c
             ELSE Return(Instance(cls, "new", [flds EXCEPT !.attributes = c.value]))

\* _convert_field_value with no coercion at all
MetaEntity_convert_field_value_AsIs(annotation, value) == Return(value)

MetaEntity_convert_field_value(annotation, value) ==
    IF TypeOf(value) = "NoneType" THEN Return(NoneValue)
    ELSE IF "origin" \in DOMAIN annotation /\ annotation.origin = "Union"
         THEN MetaEntity_convert_field_value(annotation.arg, value)
    ELSE IF "origin" \in DOMAIN annotation /\ annotation.origin = "list"
         THEN IF TypeOf(value) /= "list" THEN Return(value)
              ELSE LET converted_items ==
                          [ i \in 1..Len(value.list) |->
                              MetaEntity_convert_field_value(annotation.arg, value.list[i]) ]
                   IN  IF FirstRaise(converted_items) /= Pending
                       THEN FirstRaise(converted_items)
                       ELSE Return(ListV([ i \in 1..Len(converted_items) |->
                                             converted_items[i].value ]))
    ELSE IF "origin" \in DOMAIN annotation /\ annotation.origin = "dict"
         THEN Return(value)
    ELSE IF annotation.class \in MetaEntitySubclasses
         THEN IF TypeOf(value) = "object" /\ value.cls = annotation.class THEN Return(value)
              ELSE IF TypeOf(value) = "dict" THEN from_dict(annotation.class, value)
              ELSE Return(value)
    ELSE IF annotation.class \in Dataclasses
         THEN IF TypeOf(value) = "object" /\ value.cls = annotation.class THEN Return(value)
              ELSE IF TypeOf(value) = "dict"
                   THEN Dataclass_init(annotation.class,
                                       Restrict(value.items, FieldNames(annotation.class)))
              ELSE Return(value)
    ELSE Return(value)

\* MetaEntity.__post_init__: the fields are converted in order, the first
\* exception ends the construction
MetaEntity_post_init(cls, flds) ==
    LET order == Fields(cls)
        converted == [ i \in 1..Len(order) |->
                         IF TypeOf(flds[order[i]]) = "NoneType" THEN Return(NoneValue)
                         ELSE MetaEntity_convert_field_value(TypeHint(cls, order[i]),
                                                             flds[order[i]]) ]
    IN  IF FirstRaise(converted) /= Pending THEN FirstRaise(converted)
        ELSE MetaEntity_bind_attribute_collection(cls,
                 [ f \in FieldNames(cls) |->
                     converted[CHOOSE i \in 1..Len(order) : order[i] = f].value ])

\* cls(**kwargs) of a dataclass: the generated __init__, then __post_init__
Dataclass_init(cls, kwargs) ==
    IF DOMAIN kwargs \ FieldNames(cls) /= {} \/ Required(cls) \ DOMAIN kwargs /= {}
    THEN Raise(PyError("TypeError"))
    ELSE LET flds == [ f \in FieldNames(cls) |->
                         IF f \in DOMAIN kwargs THEN kwargs[f] ELSE NoneValue ]
         IN  IF cls \in MetaEntitySubclasses THEN MetaEntity_post_init(cls, flds)
             ELSE IF cls = "Attribute" THEN Attribute_post_init(flds)
             ELSE Return(Instance(cls, "new", flds))

MetaEntity_from_dict(cls, data) ==
    IF Falsy(data) THEN Return(NoneValue)
    ELSE Dataclass_init(cls, Restrict(data.items, FieldNames(cls)))

\* Webhook.from_dict and WebhookStock.from_dict: cls(**data)
Webhook_from_dict(cls, data) ==
    IF Falsy(data) THEN Return(NoneValue)
    ELSE Dataclass_init(cls, data.items)

\* cls.from_dict(data), by the class that defines it
from_dict(cls, data) ==
    IF cls \in { "Webhook", "WebhookStock" } THEN Webhook_from_dict(cls, data)
    ELSE MetaEntity_from_dict(cls, data)

\* dataclasses.asdict: objects become dicts of all their fields, containers
\* are rebuilt with their own type, so an AttributeCollection is built again
\* from the dicts of its items
RECURSIVE asdict(_)
asdict(obj) ==
    IF TypeOf(obj) = "object"
    THEN DictValue([ f \in DOMAIN obj.fields |-> asdict(obj.fields[f]) ])
    ELSE IF TypeOf(obj) = "AttributeCollection"
         THEN AttributeCollection_init(
                  [ i \in 1..Len(obj.attributes) |-> asdict(obj.attributes[i]) ]).value
    ELSE IF TypeOf(obj) = "list"
         THEN ListV([ i \in 1..Len(obj.list) |-> asdict(obj.list[i]) ])
    ELSE IF TypeOf(obj) = "dict"
         THEN DictValue([ k \in DOMAIN obj.items |-> asdict(obj.items[k]) ])
    ELSE obj

\* _convert_for_json that filters the outermost dict only
convert_for_json_Shallow(obj) ==
    IF TypeOf(obj) = "dict"
    THEN DictValue(Restrict(obj.items, { k \in DOMAIN obj.items : TypeOf(obj.items[k]) /= "NoneType" }))
    ELSE obj

RECURSIVE convert_for_json(_)
convert_for_json(obj) ==
    IF TypeOf(obj) = "object" THEN convert_for_json(asdict(obj))
    ELSE IF TypeOf(obj) = "dict"
         THEN DictValue([ k \in { k \in DOMAIN obj.items : TypeOf(obj.items[k]) /= "NoneType" } |->
                            convert_for_json(obj.items[k]) ])
    ELSE IF TypeOf(obj) = "list"
         THEN ListV([ i \in 1..Len(obj.list) |-> convert_for_json(obj.list[i]) ])
    ELSE IF TypeOf(obj) = "AttributeCollection"
         THEN ListV([ i \in 1..Len(obj.attributes) |-> convert_for_json(obj.attributes[i]) ])
    ELSE obj

MetaEntity_to_dict(self) == convert_for_json(asdict(self))

\* what the callers pass: for each field, the key is missing or has one of
\* these values
Absent == [absent |-> TRUE]

MetaObject         == Instance("Meta", "o1", [type |-> NoneValue, href |-> StrV(<< "h" >>)])
OrganizationObject == Instance("Organization", "o2",
                               [id |-> StrV(<< "1" >>), meta |-> NoneValue])
MetaPayload        == DictValue([href |-> StrV(<< "h" >>)])
MetaPayloadNewKey  == DictValue([href |-> StrV(<< "h" >>), newKey |-> StrV(<< "n" >>)])

MetaValues == { Absent, DictValue(EmptyDict), MetaPayload, MetaPayloadNewKey, MetaObject }
OrganizationValues ==
    { Absent, DictValue(EmptyDict), DictValue([id |-> StrV(<< "1" >>)]),
      DictValue([id |-> StrV(<< "1" >>), newKey |-> StrV(<< "n" >>)]),
      OrganizationObject, StrV(<< "x" >>) }
PaymentsValues ==
    { Absent, ListV(<<>>), ListV(<< MetaPayload, MetaObject >>),
      ListV(<< NoneValue, MetaPayloadNewKey >>) }
AttributesValues ==
    { Absent, ListV(<< DictValue(EmptyDict) >>),
      ListV(<< DictValue([value |-> StrV(<< "v" >>), id |-> StrV(<< "a" >>)]) >>),
      ListV(<< DictValue([id |-> StrV(<< "a" >>), newKey |-> StrV(<< "n" >>)]) >>) }

\* the payload: the chosen values without the missing keys
Payload(choice) ==
    DictValue([ k \in { k \in DOMAIN choice : choice[k] /= Absent } |-> choice[k] ])

Payloads(cls) ==
    CASE cls = "Organization" ->
            { Payload([id |-> i, meta |-> m, newKey |-> n]) :
                m \in MetaValues, i \in { Absent, NoneValue, StrV(<< "1" >>) }, n \in { Absent, StrV(<< "n" >>) } }
      [] cls = "Webhook" ->
            { Payload([id |-> i, newKey |-> n, authorApplication |-> m]) :
                m \in MetaValues, i \in { Absent, NoneValue, StrV(<< "1" >>) }, n \in { Absent, StrV(<< "n" >>) } }
      [] cls = "WebhookStock" ->
            { Payload([id |-> i, newKey |-> n, url |-> u]) :
                i \in { Absent, NoneValue, StrV(<< "1" >>) }, u \in { Absent, StrV(<< "u" >>) }, n \in { Absent, StrV(<< "n" >>) } }
      [] cls = "Supply" ->
            { Payload([id |-> StrV(<< "1" >>), meta |-> m, attributes |-> a, newKey |-> n,
                       organization |-> o, store |-> s, payments |-> p]) :
                m \in { Absent, MetaPayloadNewKey }, a \in AttributesValues,
                o \in OrganizationValues, s \in { Absent, DictValue([id |-> StrV(<< "1" >>), name |-> NoneValue]) }, p \in PaymentsValues,
                n \in { Absent, StrV(<< "n" >>) } }

InitEntity ==
    /\ ClientUnused
    /\ qb = Unused /\ qlog = <<>> /\ params = Unused
    /\ \E cls \in MetaEntitySubclasses :
          \E data \in Payloads(cls) : supplied = [data |-> data, cls |-> cls]
    /\ built = Unused
    /\ dumped = Unused
    /\ date = Unused /\ date_str = Unused /\ date_back = Unused
    /\ owner = Unused /\ last = Unused
    /\ query_builder = Unused /\ conditions = Unused /\ gets = <<>>

\* cls.from_dict(data)
FromDict ==
    /\ built = Unused
    /\ built' = [outcome |-> from_dict(supplied.cls, supplied.data), via |-> "from_dict"]
    /\ UNCHANGED << supplied, dumped >>
    /\ UNCHANGED << httpVars, queryVars, dateVars, attrVars, repoVars >>

\* cls(**data)
Construct ==
    /\ built = Unused
    /\ built' = [outcome |-> Dataclass_init(supplied.cls, supplied.data.items), via |-> "init"]
    /\ UNCHANGED << supplied, dumped >>
    /\ UNCHANGED << httpVars, queryVars, dateVars, attrVars, repoVars >>

\* entity.to_dict()
ToDict ==
    /\ built /= Unused
    /\ built.outcome.kind = "return"
    /\ TypeOf(built.outcome.value) = "object"
    /\ dumped = Unused
    /\ dumped' = MetaEntity_to_dict(built.outcome.value)
    /\ UNCHANGED << supplied, built >>
    /\ UNCHANGED << httpVars, queryVars, dateVars, attrVars, repoVars >>

NextEntity == FromDict \/ Construct \/ ToDict

SpecEntity == InitEntity /\ [][NextEntity]_vars

\* the value the caller supplied for a field (None when the key is missing)
SuppliedValue(f) ==
    IF f \in DOMAIN supplied.data.items THEN supplied.data.items[f] ELSE NoneValue

\* a payload without the keys that are not fields of the class they are
\* meant for, at every level
RECURSIVE StripValue(_, _)
RECURSIVE StripDict(_, _)
StripValue(annotation, value) ==
    IF "origin" \in DOMAIN annotation
    THEN IF annotation.origin = "Union" THEN StripValue(annotation.arg, value)
         ELSE IF annotation.origin = "list" /\ TypeOf(value) = "list"
              THEN ListV([ i \in 1..Len(value.list) |->
                             StripValue(annotation.arg, value.list[i]) ])
         ELSE value
    ELSE IF annotation.class \in Dataclasses /\ TypeOf(value) = "dict"
         THEN StripDict(annotation.class, value)
    ELSE IF annotation.class = "AttributeCollection" /\ TypeOf(value) = "list"
         THEN ListV([ i \in 1..Len(value.list) |->
                        StripValue([class |-> "Attribute"], value.list[i]) ])
    ELSE value
StripDict(cls, d) ==
    DictValue([ k \in DOMAIN d.items \cap FieldNames(cls) |->
                  StripValue(TypeHint(cls, k), d.items[k]) ])

\* C12: keys that are not fields of the target class never make from_dict
\* fail and do not change the entity it returns, at the top level, in nested
\* dataclass-typed fields, and for the classes with a from_dict of their own:
\* from_dict of a payload ends as from_dict of the payload without those keys.
C12_UnknownFieldsIgnored ==
    (built /= Unused /\ built.via = "from_dict") =>
        built.outcome = from_dict(supplied.cls, StripDict(supplied.cls, supplied.data))

IsA(v, X) == TypeOf(v) = "object" /\ v.cls = X
Unwrap(h) == IF "origin" \in DOMAIN h /\ h.origin = "Union" THEN h.arg ELSE h
IsDataclassHint(h) == "class" \in DOMAIN h /\ h.class \in Dataclasses

\* C13: after construction, a non-None field of hint X or Optional[X], X a
\* MetaEntity subclass or a dataclass, holds an X when a dict was supplied and
\* the supplied object itself when an X was supplied; a List[X] field keeps
\* length and order and is coerced element by element; converting the field
\* again changes nothing.
C13_NestedCoercion ==
    (built /= Unused /\ built.outcome.kind = "return" /\ TypeOf(built.outcome.value) = "object") =>
        \A f \in FieldNames(supplied.cls) :
            LET h == Unwrap(TypeHint(supplied.cls, f))
                v == built.outcome.value.fields[f]
                s == SuppliedValue(f)
            IN  /\ (IsDataclassHint(h) /\ TypeOf(v) /= "NoneType") =>
                      /\ TypeOf(s) = "dict" => IsA(v, h.class)
                      /\ IsA(s, h.class) => v = s
                      /\ MetaEntity_convert_field_value(h, v) = Return(v)
                /\ ("origin" \in DOMAIN h /\ h.origin = "list"
                      /\ IsDataclassHint(h.arg) /\ TypeOf(s) = "list") =>
                      /\ TypeOf(v) = "list"
                      /\ Len(v.list) = Len(s.list)
                      /\ \A i \in 1..Len(s.list) :
                            /\ (TypeOf(s.list[i]) = "dict" /\ TypeOf(v.list[i]) /= "NoneType") =>
                                  IsA(v.list[i], h.arg.class)
                            /\ TypeOf(s.list[i]) /= "dict" => v.list[i] = s.list[i]
                      /\ MetaEntity_convert_field_value(h, v) = Return(v)

\* a Supply built from dicts and objects: the organization dict became an
\* Organization, the first payment a new Meta, the second payment is the
\* Meta object that was passed in
C13_Witness ==
    /\ built /= Unused
    /\ built.outcome.kind = "return"
    /\ supplied.cls = "Supply"
    /\ TypeOf(SuppliedValue("organization")) = "dict"
    /\ IsA(built.outcome.value.fields.organization, "Organization")
    /\ SuppliedValue("payments") = ListV(<< MetaPayload, MetaObject >>)
    /\ built.outcome.value.fields.payments.list[1].oid = "new"
    /\ built.outcome.value.fields.payments.list[2] = MetaObject

\* None as the value of a key, and None as the element of a list, at any depth
RECURSIVE HasNoneDictValue(_)
HasNoneDictValue(v) ==
    IF TypeOf(v) = "dict"
    THEN \E k \in DOMAIN v.items : TypeOf(v.items[k]) = "NoneType" \/ HasNoneDictValue(v.items[k])
    ELSE IF TypeOf(v) = "list" THEN \E i \in 1..Len(v.list) : HasNoneDictValue(v.list[i])
    ELSE FALSE

RECURSIVE HasNoneListElement(_)
HasNoneListElement(v) ==
    IF TypeOf(v) = "dict" THEN \E k \in DOMAIN v.items : HasNoneListElement(v.items[k])
    ELSE IF TypeOf(v) = "list"
         THEN \E i \in 1..Len(v.list) : TypeOf(v.list[i]) = "NoneType" \/ HasNoneListElement(v.list[i])
    ELSE FALSE

\* C14 as stated: the structure to_dict returns holds no None at any depth,
\* neither as a dict value nor as an element of a nested list.
C14_NoNoneAtAnyDepth ==
    dumped /= Unused => ~HasNoneDictValue(dumped) /\ ~HasNoneListElement(dumped)

\* C14: the structure to_dict returns is a dict of plain values that holds no
\* None as a dict value at any depth; a list keeps all its elements, a None
\* among them too.
C14_NoNoneDictValue ==
    dumped /= Unused =>
        /\ TypeOf(dumped) = "dict"
        /\ ~HasNoneDictValue(dumped)
        /\ \A f \in DOMAIN dumped.items :
              TypeOf(built.outcome.value.fields[f]) = "list" =>
                  /\ TypeOf(dumped.items[f]) = "list"
                  /\ Len(dumped.items[f].list) = Len(built.outcome.value.fields[f].list)
                  /\ \A i \in 1..Len(dumped.items[f].list) :
                        TypeOf(dumped.items[f].list[i]) = "NoneType"
                            <=> TypeOf(built.outcome.value.fields[f].list[i]) = "NoneType"

\* a Supply whose store dict had a None value and whose payments list had a
\* None element: the first is gone, the second is still there
C14_Witness ==
    /\ dumped /= Unused
    /\ TypeOf(SuppliedValue("store")) = "dict"
    /\ TypeOf(SuppliedValue("store").items.name) = "NoneType"
    /\ TypeOf(SuppliedValue("payments")) = "list"
    /\ Len(SuppliedValue("payments").list) = 2
    /\ dumped.items.store = DictValue([id |-> StrV(<< "1" >>)])
    /\ Len(dumped.items.payments.list) = 2
    /\ TypeOf(dumped.items.payments.list[1]) = "NoneType"
    /\ TypeOf(dumped.items.payments.list[2]) = "dict"

(* --------------------------- utils/helpers.py -------------------------- *)

\* the days counted from date.min, day 0, up to this one
MaxDay == 2

\* A naive datetime: its date as the number of the day, its time of day.
Datetime(day, hour, minute, second) ==
    [day |-> day, hour |-> hour, minute |-> minute, second |-> second]

\* date - timedelta(hours=2); nothing lies before datetime.min
MinusTwoHours(d) ==
    IF d.hour >= 2 THEN Return([d EXCEPT !.hour = @ - 2])
    ELSE IF d.day = 0 THEN Raise(PyError("OverflowError"))
    ELSE Return([d EXCEPT !.day = @ - 1, !.hour = @ + 22])

\* dt + timedelta(hours=2)
PlusTwoHours(d) ==
    IF d.hour < 22 THEN [d EXCEPT !.hour = @ + 2]
    ELSE [d EXCEPT !.day = @ + 1, !.hour = @ - 22]

\* a number in a field of the given width, zero padded
Pad(n, width) == [ i \in 1..(width - Len(IntStr(n))) |-> "0" ] \o IntStr(n)

RECURSIVE ParseInt(_)
ParseInt(s) ==
    IF Len(s) = 0 THEN 0
    ELSE 10 * ParseInt(SubSeq(s, 1, Len(s) - 1))
           + (CHOOSE n \in 0..9 : Digit[n + 1] = s[Len(s)])

\* the format: the date, a space, hours and minutes; no seconds
MS_FORMAT == << "date", " ", "%H", ":", "%M" >>

\* adjusted_date.strftime(MS_FORMAT)
strftime(d) == Pad(d.day, 4) \o << MS_FORMAT[2] >> \o Pad(d.hour, 2)
                   \o << MS_FORMAT[4] >> \o Pad(d.minute, 2)

\* datetime.strptime(date_str, MS_FORMAT): the fields the format does not
\* have are zero
strptime(s) ==
    IF /\ Len(s) = 10
       /\ s[5] = MS_FORMAT[2] /\ s[8] = MS_FORMAT[4]
       /\ \A i \in 1..10 \ { 5, 8 } : \E n \in 0..9 : Digit[n + 1] = s[i]
    THEN Return(Datetime(ParseInt(SubSeq(s, 1, 4)), ParseInt(SubSeq(s, 6, 7)),
                         ParseInt(SubSeq(s, 9, 10)), 0))
    ELSE Raise(PyError("ValueError"))

ms_datetime_to_string(d) ==
    IF TypeOf(d) = "NoneType" THEN Return(NoneValue)
    ELSE IF TypeOf(d) = "datetime"
         THEN LET adjusted_date == MinusTwoHours(d)
              IN  IF adjusted_date.kind = "raise" THEN adjusted_date
                  ELSE Return(StrV(strftime(adjusted_date.value)))
    ELSE Return(StrV(PyStr(d)))

ms_string_to_datetime(s) ==
    IF TypeOf(s) = "NoneType" \/ s.str = <<>> THEN NoneValue
    ELSE LET dt == strptime(s.str)
         IN  IF dt.kind = "raise" THEN NoneValue ELSE PlusTwoHours(dt.value)

InitDate ==
    /\ ClientUnused
    /\ qb = Unused /\ qlog = <<>> /\ params = Unused
    /\ supplied = Unused /\ built = Unused /\ dumped = Unused
    /\ date \in { Datetime(day, hour, minute, second) :
                     day \in 0..MaxDay, hour \in 0..23,
                     minute \in { 0, 59 }, second \in { 0, 30 } }
                 \cup { NoneValue, StrV(<< "x" >>), StrV(<<>>) }
    /\ date_str = Unused
    /\ date_back = Unused
    /\ owner = Unused /\ last = Unused
    /\ query_builder = Unused /\ conditions = Unused /\ gets = <<>>

\* ms_datetime_to_string(date)
DatetimeToString ==
    /\ date_str = Unused
    /\ date_str' = ms_datetime_to_string(date)
    /\ UNCHANGED << date, date_back >>
    /\ UNCHANGED << httpVars, queryVars, entityVars, attrVars, repoVars >>

\* ms_string_to_datetime(date_str)
StringToDatetime ==
    /\ date_str /= Unused
    /\ date_str.kind = "return"
    /\ date_back = Unused
    /\ date_back' = [value |-> ms_string_to_datetime(date_str.value)]
    /\ UNCHANGED << date, date_str >>
    /\ UNCHANGED << httpVars, queryVars, entityVars, attrVars, repoVars >>

NextDate == DatetimeToString \/ StringToDatetime

SpecDate == InitDate /\ [][NextDate]_vars

\* C15: for every datetime d, ms_datetime_to_string(d) is a string and
\* ms_string_to_datetime of that string is d again.
C15_RoundTrip ==
    TypeOf(date) = "datetime" =>
        /\ date_str /= Unused => (date_str.kind = "return" /\ TypeOf(date_str.value) = "str")
        /\ date_back /= Unused => date_back.value = date

(* ------------------------- attribute collections ----------------------- *)

\* the attribute calls made on one entity
MaxAttrCalls == 3

\* the entity classes: Product names its entity, Barcode inherits the empty
\* entity_name of MetaEntity
EntityName(cls) == IF cls = "Product" THEN << "entity/product" >> ELSE <<>>

\* the items of the entity's collection (none when attributes is None)
Items(attributes) == IF TypeOf(attributes) = "AttributeCollection" THEN attributes.attributes ELSE <<>>

\* bool(self.attributes): None and the empty collection are false
HasAttributes(self) == TypeOf(self.attributes) = "AttributeCollection" /\ self.attributes.attributes /= <<>>

\* cls.get_attribute_href(attribute_id), and the Meta _build_meta makes of it
\* for a collection bound to its owner
AttributeCollection_build_meta(self, attribute_id) ==
    Instance("Meta", "new",
             [type |-> StrV(<< "attributemetadata" >>),
              href |-> StrV(EntityName(self.cls) \o << "/metadata/attributes/" >>
                              \o attribute_id.str)])

\* AttributeCollection.get: the first attribute with the id, or None
AttributeCollection_get(items, attribute_id) ==
    IF \E i \in 1..Len(items) : items[i].fields.id = attribute_id
    THEN items[CHOOSE i \in 1..Len(items) :
                  /\ items[i].fields.id = attribute_id
                  /\ \A j \in 1..(i - 1) : items[j].fields.id /= attribute_id]
    ELSE NoneValue

AttributeCollection_get_value(items, attribute_id) ==
    LET attribute == AttributeCollection_get(items, attribute_id)
    IN  IF TypeOf(attribute) /= "NoneType" THEN attribute.fields.value ELSE NoneValue

\* AttributeCollection.add on the collection of entity self: the entity with
\* the new attribute appended, and the attribute
AttributeCollection_add(self, attribute_id, value) ==
    LET attribute == Instance("Attribute", self.created + 1,
                              [value |-> value, id |-> attribute_id,
                               meta |-> AttributeCollection_build_meta(self, attribute_id)])
    IN  [self |-> [self EXCEPT !.attributes = AttrColl(Append(Items(@), attribute)),
                               !.created = @ + 1],
         ret |-> attribute]

\* AttributeCollection.update that appends whether or not the id is there
AttributeCollection_update_AlwaysAdd(self, attribute_id, value) ==
    AttributeCollection_add(self, attribute_id, value)

\* AttributeCollection.update: the found object is changed in place
AttributeCollection_update(self, attribute_id, value) ==
    LET items == Items(self.attributes)
        attribute == AttributeCollection_get(items, attribute_id)
    IN  IF TypeOf(attribute) /= "NoneType"
        THEN LET updated ==
                    [attribute EXCEPT
                        !.fields.value = value,
                        !.fields.meta = IF TypeOf(@) = "NoneType"
                                        THEN AttributeCollection_build_meta(self, attribute_id)
                                        ELSE @]
             IN  [self |-> [self EXCEPT !.attributes =
                              AttrColl([ i \in 1..Len(items) |->
                                           IF items[i].oid = attribute.oid
                                           THEN updated ELSE items[i] ])],
                  ret |-> updated]
        ELSE AttributeCollection_add(self, attribute_id, value)

\* list.remove that takes out every element equal to x
list_remove_All(items, x) == SelectSeq(items, LAMBDA e : e.fields /= x.fields)

\* list.remove(x): the first element equal to x goes; dataclasses are equal
\* when their fields are
list_remove(items, x) ==
    LET k == CHOOSE i \in 1..Len(items) :
                 /\ items[i].fields = x.fields
                 /\ \A j \in 1..(i - 1) : items[j].fields /= x.fields
    IN  SubSeq(items, 1, k - 1) \o SubSeq(items, k + 1, Len(items))

AttributeCollection_remove_by_id(self, attribute_id) ==
    LET items == Items(self.attributes)
        attribute == AttributeCollection_get(items, attribute_id)
    IN  IF TypeOf(attribute) /= "NoneType"
        THEN [self |-> [self EXCEPT !.attributes = AttrColl(list_remove(items, attribute))],
              ret |-> attribute]
        ELSE [self |-> self, ret |-> NoneValue]

\* MetaEntity._get_attribute_collection: a missing collection is created
MetaEntity_get_attribute_collection(self) ==
    IF TypeOf(self.attributes) = "NoneType" THEN [self EXCEPT !.attributes = AttrColl(<<>>)] ELSE self

MetaEntity_add_attribute(self, attribute_id, value) ==
    IF EntityName(self.cls) = <<>> THEN [self |-> self, ret |-> NoneValue]
    ELSE AttributeCollection_add(MetaEntity_get_attribute_collection(self),
                                 attribute_id, value)

MetaEntity_create_or_update_attribute(self, attribute_id, value) ==
    IF EntityName(self.cls) = <<>> THEN [self |-> self, ret |-> NoneValue]
    ELSE AttributeCollection_update(MetaEntity_get_attribute_collection(self),
                                    attribute_id, value)

MetaEntity_remove_attribute(self, attribute_id) ==
    IF ~HasAttributes(self) THEN [self |-> self, ret |-> NoneValue]
    ELSE AttributeCollection_remove_by_id(self, attribute_id)

MetaEntity_get_attribute_value(self, attribute_id) ==
    IF ~HasAttributes(self) THEN NoneValue
    ELSE AttributeCollection_get_value(self.attributes.attributes, attribute_id)

\* an entity as constructed: without attributes, or with one from its payload
InitAttr ==
    /\ ClientUnused
    /\ qb = Unused /\ qlog = <<>> /\ params = Unused
    /\ supplied = Unused /\ built = Unused /\ dumped = Unused
    /\ date = Unused /\ date_str = Unused /\ date_back = Unused
    /\ \E cls \in { "Product", "Barcode" } :
          \E attributes \in
                { NoneValue,
                  AttrColl(<< Instance("Attribute", 0,
                                       [value |-> StrV(<< "v1" >>), id |-> StrV(<< "a" >>),
                                        meta |-> NoneValue]) >>) } :
             owner = [cls |-> cls, attributes |-> attributes, created |-> 0, calls |-> 0]
    /\ last = Unused
    /\ query_builder = Unused /\ conditions = Unused /\ gets = <<>>

\* one call: the entity afterwards, and what the call was and returned
Called(op, attribute_id, value, r) ==
    /\ owner.calls < MaxAttrCalls
    /\ owner' = [r.self EXCEPT !.calls = @ + 1]
    /\ last' = [value |-> value, id |-> attribute_id, op |-> op,
                ret |-> r.ret, before |-> owner.attributes]
    /\ UNCHANGED << httpVars, queryVars, entityVars, dateVars, repoVars >>

\* entity.add_attribute(attribute_id, value)
AddAttribute(attribute_id, value) ==
    Called("add_attribute", attribute_id, value,
           MetaEntity_add_attribute(owner, attribute_id, value))

\* entity.create_or_update_attribute(attribute_id, value)
CreateOrUpdateAttribute(attribute_id, value) ==
    Called("create_or_update_attribute", attribute_id, value,
           MetaEntity_create_or_update_attribute(owner, attribute_id, value))

\* entity.remove_attribute(attribute_id)
RemoveAttribute(attribute_id) ==
    Called("remove_attribute", attribute_id, NoneValue,
           MetaEntity_remove_attribute(owner, attribute_id))

\* entity.attributes.update(attribute_id, value)
CollectionUpdate(attribute_id, value) ==
    /\ TypeOf(owner.attributes) = "AttributeCollection"
    /\ Called("update", attribute_id, value,
              AttributeCollection_update(owner, attribute_id, value))

\* entity.attributes.remove_by_id(attribute_id)
CollectionRemoveById(attribute_id) ==
    /\ TypeOf(owner.attributes) = "AttributeCollection"
    /\ Called("remove_by_id", attribute_id, NoneValue,
              AttributeCollection_remove_by_id(owner, attribute_id))

NextAttr ==
    \E attribute_id \in { StrV(<< "a" >>), StrV(<< "b" >>) } :
        \E value \in { StrV(<< "v1" >>), StrV(<< "v2" >>) } :
            \/ AddAttribute(attribute_id, value)
            \/ CreateOrUpdateAttribute(attribute_id, value)
            \/ RemoveAttribute(attribute_id)
            \/ CollectionUpdate(attribute_id, value)
            \/ CollectionRemoveById(attribute_id)

SpecAttr == InitAttr /\ [][NextAttr]_vars

\* the positions of the attributes with an id
Holding(items, attribute_id) ==
    { i \in 1..Len(items) : items[i].fields.id = attribute_id }
First(S) == CHOOSE i \in S : \A j \in S : i <= j

\* the upsert of the claim, between the items before and after a write
Upserted(before, after, attribute_id, value) ==
    /\ Holding(before, attribute_id) /= {} =>
          /\ Len(after) = Len(before)
          /\ after[First(Holding(before, attribute_id))].fields.value = value
          /\ \A i \in 1..Len(before) :
                i /= First(Holding(before, attribute_id)) => after[i] = before[i]
    /\ Holding(before, attribute_id) = {} =>
          /\ Len(after) = Len(before) + 1
          /\ SubSeq(after, 1, Len(before)) = before
          /\ after[Len(after)].fields.id = attribute_id
          /\ after[Len(after)].fields.value = value
    /\ AttributeCollection_get_value(after, attribute_id) = value

\* C16 as stated: update is an upsert and get_value returns the value just
\* written; get_attribute_value after create_or_update_attribute returns the
\* value just written, on every entity.
C16_UpsertOnEveryEntity ==
    /\ (last /= Unused /\ last.op = "update") =>
          Upserted(Items(last.before), Items(owner.attributes), last.id, last.value)
    /\ (last /= Unused /\ last.op = "create_or_update_attribute") =>
          MetaEntity_get_attribute_value(owner, last.id) = last.value

\* C16: update is an upsert and get_value returns the value just written; on
\* an entity whose class has a non-empty entity_name create_or_update_attribute
\* is that upsert and get_attribute_value returns the value just written; on
\* an entity whose class has none it writes nothing and returns None.
C16_Upsert ==
    /\ (last /= Unused /\ last.op = "update") =>
          Upserted(Items(last.before), Items(owner.attributes), last.id, last.value)
    /\ (last /= Unused /\ last.op = "create_or_update_attribute") =>
          IF EntityName(owner.cls) /= <<>>
          THEN /\ Upserted(Items(last.before), Items(owner.attributes), last.id, last.value)
               /\ MetaEntity_get_attribute_value(owner, last.id) = last.value
               /\ TypeOf(last.ret) /= "NoneType" /\ last.ret.fields.value = last.value
          ELSE /\ owner.attributes = last.before
               /\ TypeOf(last.ret) = "NoneType"

\* an attribute "a" that was there twice is written through the entity: the
\* first one has the new value, the second one its old value, nothing was added
C16_Witness ==
    /\ last /= Unused
    /\ last.op = "create_or_update_attribute"
    /\ owner.cls = "Product"
    /\ last.id = StrV(<< "a" >>)
    /\ last.value = StrV(<< "v2" >>)
    /\ Len(Items(last.before)) = 2
    /\ Len(Items(owner.attributes)) = 2
    /\ Holding(Items(last.before), last.id) = { 1, 2 }
    /\ Items(last.before)[1].fields.value = StrV(<< "v1" >>)
    /\ Items(owner.attributes)[1].fields.value = StrV(<< "v2" >>)
    /\ Items(owner.attributes)[2].fields.value = StrV(<< "v1" >>)

\* C17: when an attribute with the id is present, remove_by_id (and
\* remove_attribute) removes exactly one element, the first with that id, and
\* returns that very object, the other elements keep their order; when none
\* is present it returns None and the collection is unchanged.
C17_RemoveById ==
    (last /= Unused /\ last.op \in { "remove_by_id", "remove_attribute" }) =>
        LET before == Items(last.before)
            after  == Items(owner.attributes)
            held   == Holding(before, last.id)
        IN  /\ held /= {} =>
                  /\ Len(after) = Len(before) - 1
                  /\ last.ret = before[First(held)]
                  /\ after = SubSeq(before, 1, First(held) - 1)
                               \o SubSeq(before, First(held) + 1, Len(before))
                  /\ \A i \in 1..Len(after) : after[i].oid /= last.ret.oid
            /\ held = {} =>
                  /\ TypeOf(last.ret) = "NoneType"
                  /\ owner.attributes = last.before

\* two equal attributes "a": one remove_by_id takes the first and leaves the
\* second
C17_Witness ==
    /\ last /= Unused
    /\ last.op = "remove_by_id"
    /\ Len(Items(last.before)) = 2
    /\ Items(last.before)[1].fields = Items(last.before)[2].fields
    /\ last.ret = Items(last.before)[1]
    /\ Items(owner.attributes) = << Items(last.before)[2] >>

(* ------------------- repositories: convenience calls ------------------- *)

\* the convenience calls one caller makes with one builder
MaxRepoCalls == 2

\* the pre-built conditions of a call put on the builder it works on:
\* query.filter().eq(field, value) for each, which gives the Filter object of
\* the builder the condition, then query.expand(...)
RECURSIVE PreBuilt(_, _, _)
PreBuilt(query, eqs, expand) ==
    IF eqs = <<>> THEN [query EXCEPT !._expand = @ \o expand]
    ELSE PreBuilt([query EXCEPT !.objects[QueryBuilder_filter(query)] =
                                   FilterMethod("eq", @, eqs[1].field, eqs[1].value)],
                  Tail(eqs), expand)

\* query = query_builder or self.query(): a QueryBuilder is always true, so
\* the object passed is the one worked on; passed = FALSE is query_builder=None
\* and the call works on a new builder. Then the pre-built conditions, then
\* api_client.get(path, params=query.to_params()), which returns or raises.
ConvenienceCall(passed, path, eqs, expand) ==
    LET query == PreBuilt(IF passed THEN query_builder ELSE NewQueryBuilder,
                          eqs, expand)
    IN  /\ Len(gets) < MaxRepoCalls
        /\ \E raised \in BOOLEAN :
              gets' = Append(gets, [params |-> QueryBuilder_to_params(query),
                                    path |-> path, eqs |-> eqs, expand |-> expand,
                                    passed |-> passed, raised |-> raised])
        /\ query_builder' = IF passed THEN query ELSE query_builder
        /\ UNCHANGED conditions
        /\ UNCHANGED << httpVars, queryVars, entityVars, dateVars, attrVars >>

\* AssortmentRepository.get_by_type(type_name, query_builder)
GetByType(type_name, passed) ==
    ConvenienceCall(passed, << "entity/assortment" >>,
                    << [value |-> StrV(<< type_name >>), field |-> "type"] >>, <<>>)

\* AssortmentRepository.get_products(query_builder)
GetProducts(passed) == GetByType("product", passed)

\* AssortmentRepository.get_services(query_builder)
GetServices(passed) == GetByType("service", passed)

\* AssortmentRepository.get_by_product_folder(folder_href, with_subfolders,
\* query_builder)
GetByProductFolder(folder_href, with_subfolders, passed) ==
    ConvenienceCall(passed, << "entity/assortment" >>,
                    << [value |-> StrV(<< folder_href >>), field |-> "productFolder"],
                       [value |-> BoolV(with_subfolders), field |-> "withSubFolders"] >>,
                    <<>>)

\* CustomerOrderRepository.get_by_agent(agent_id, query_builder)
GetByAgent(agent_id, passed) ==
    ConvenienceCall(passed, << "entity/customerorder" >>,
                    << [value |-> StrV(<< agent_id >>), field |-> "agent.id"] >>, <<>>)

\* CustomerOrderRepository.get_positions(order_id, query_builder)
GetPositions(order_id, passed) ==
    ConvenienceCall(passed, << "entity/customerorder", "/", order_id, "/positions" >>,
                    <<>>, << << "assortment" >> >>)

\* ProductFolderRepository.get_products(folder_id, query_builder)
FolderGetProducts(folder_id, passed) ==
    ConvenienceCall(passed, << "entity/product" >>,
                    << [value |-> StrV(<< folder_id >>), field |-> "productFolder.id"] >>,
                    <<>>)

\* the builder the caller comes with: a new one, one with a condition, one
\* with a condition, an expansion and a limit
InitRepo ==
    /\ ClientUnused
    /\ qb = Unused /\ qlog = <<>> /\ params = Unused
    /\ supplied = Unused /\ built = Unused /\ dumped = Unused
    /\ date = Unused /\ date_str = Unused /\ date_back = Unused
    /\ owner = Unused /\ last = Unused
    /\ LET named == PreBuilt(NewQueryBuilder,
                             << [value |-> StrV(<< "x" >>), field |-> "name"] >>, <<>>)
       IN  query_builder \in
              { NewQueryBuilder, named,
                [named EXCEPT !._expand = << << "agent" >> >>, !._limit = IntV(10)] }
    /\ conditions = query_builder
    /\ gets = <<>>

NextRepo ==
    \/ \E type_name \in { "variant", "bundle" }, passed \in BOOLEAN :
          GetByType(type_name, passed)
    \/ \E passed \in BOOLEAN : GetProducts(passed)
    \/ \E passed \in BOOLEAN : GetServices(passed)
    \/ \E with_subfolders \in BOOLEAN, passed \in BOOLEAN :
          GetByProductFolder("h", with_subfolders, passed)
    \/ \E passed \in BOOLEAN : GetByAgent("a1", passed)
    \/ \E passed \in BOOLEAN : GetPositions("o1", passed)
    \/ \E passed \in BOOLEAN : FolderGetProducts("f1", passed)

SpecRepo == InitRepo /\ [][NextRepo]_vars

\* C21: a convenience call leaves the builder it was passed unchanged, so
\* every call that is passed the caller's builder sends the caller's original
\* conditions plus its own pre-built ones and nothing else, however many calls
\* were made with the builder before
C21_CallerBuilderUnchanged ==
    /\ query_builder = conditions
    /\ \A i \in 1..Len(gets) :
          gets[i].passed =>
             gets[i].params =
                QueryBuilder_to_params(PreBuilt(conditions, gets[i].eqs, gets[i].expand))

====
